---- MODULE Spec2Model ----
(***************************************************************************)
(* Model of tokage/abc.py: the four entity constructors Anime, Manga,      *)
(* Character and Person, which turn a raw API payload (a keyword mapping)  *)
(* into an attributed object.                                              *)
(*                                                                         *)
(* Values.  Every Python value that can be None is a tagged record         *)
(* [t |-> tag, v |-> content]:  Null is None, Str(s) a str (s a sequence   *)
(* of one-character strings), List(l) a list, Dict(d) a dict kept as the   *)
(* sequence of its items in iteration order, Val(k) an opaque scalar.      *)
(* Nested JSON records (a relation, an author, an animeography entry) are  *)
(* functions from key names to values; they are the objects the            *)
(* constructors share with their caller.                                   *)
(***************************************************************************)
EXTENDS Integers, Sequences, FiniteSets, TLC

VARIABLES
    kind,       \* which constructor the caller invokes
    entity_id,  \* the anime_id / manga_id / char_id / person_id argument
    payload,    \* the caller's raw payload, nested records included
    payload0,   \* the payload as it was before the first call
    kwargs,     \* keys still held by the callee's **kwargs dict
    self,       \* attributes assigned so far on the object under construction
    pc,         \* position of the running constructor
    status,     \* "idle", "running", "returned" or "raised"
    err,        \* the exception that ended the call, "none" otherwise
    it,         \* loop position: <<index of relation type, index of record>>
    run,        \* 1 for the first call on the payload, 2 for the second
    first       \* outcome of the first call, once the second has started

vars == <<kind, entity_id, payload, payload0, kwargs, self, pc, status, err, it, run, first>>

----------------------------------------------------------------------------
(* Bounds of the input space *)

MaxOmitted == 1     \* keys removed from the complete payload
MaxPieces == 5      \* pieces a date string is assembled from
MaxGenres == 2      \* sub-records in a genre list
MaxRecs == 2        \* records in a related mapping, an author list, an -ography list

----------------------------------------------------------------------------
(* Values *)

Null == [t |-> "null", v |-> <<>>]
Str(s) == [t |-> "str", v |-> s]
List(l) == [t |-> "list", v |-> l]
Dict(d) == [t |-> "dict", v |-> d]
Val(k) == [t |-> "val", v |-> k]
Ref(path) == [t |-> "ref", v |-> path]

IsNull(x) == x.t = "null"

\* Python truthiness of the values a genre field can hold
Truthy(x) ==
    CASE x.t = "null" -> FALSE
      [] x.t \in {"list", "str", "dict"} -> Len(x.v) > 0
      [] OTHER -> TRUE

\* rec[key] = val on a nested record
SetKey(rec, key, val) ==
    [x \in (DOMAIN rec) \cup {key} |-> IF x = key THEN val ELSE rec[x]]

\* sequences over S of length at most n
RECURSIVE SeqsUpTo(_, _)
SeqsUpTo(S, n) ==
    IF n = 0 THEN {<<>>}
    ELSE LET P == SeqsUpTo(S, n - 1)
         IN  P \cup {Append(p, x) : p \in {q \in P : Len(q) = n - 1}, x \in S}

RECURSIVE Flatten(_)
Flatten(ss) == IF ss = <<>> THEN <<>> ELSE Head(ss) \o Flatten(Tail(ss))

----------------------------------------------------------------------------
(* str operations used by the date-range code *)

SEP == <<" ", "t", "o", " ">>

\* Python: sub in s
Contains(s, sub) ==
    \E i \in 1..(Len(s) - Len(sub) + 1) : SubSeq(s, i, i + Len(sub) - 1) = sub

\* index of the leftmost occurrence of sub in s, 0 when there is none
Find(s, sub) ==
    IF Contains(s, sub)
    THEN CHOOSE i \in 1..(Len(s) - Len(sub) + 1) :
            /\ SubSeq(s, i, i + Len(sub) - 1) = sub
            /\ \A j \in 1..(i - 1) : SubSeq(s, j, j + Len(sub) - 1) # sub
    ELSE 0

\* Python: s.split(sub), left to right, occurrences not overlapping
RECURSIVE Split(_, _)
Split(s, sub) ==
    LET i == Find(s, sub)
    IN  IF i = 0 THEN <<s>>
        ELSE <<SubSeq(s, 1, i - 1)>> \o Split(SubSeq(s, i + Len(sub), Len(s)), sub)

----------------------------------------------------------------------------
(* Collaborators imported from tokage.utils and tokage.partial *)

Digits == <<"0", "1", "2", "3", "4", "5", "6", "7", "8", "9">>

IsDigit(c) == \E n \in 1..Len(Digits) : Digits[n] = c

DigitVal(c) == (CHOOSE n \in 1..Len(Digits) : Digits[n] = c) - 1

RECURSIVE ToInt(_)
ToInt(s) ==
    IF s = <<>> THEN 0
    ELSE ToInt(SubSeq(s, 1, Len(s) - 1)) * Len(Digits) + DigitVal(s[Len(s)])

IsNumeric(seg) == Len(seg) > 0 /\ \A i \in 1..Len(seg) : IsDigit(seg[i])

\* utils.parse_id: the first numeric path segment of the URL, as an integer
ParseId(url) ==
    LET segs == Split(url, <<"/">>)
        hits == {i \in 1..Len(segs) : IsNumeric(segs[i])}
    IN  IF hits = {}
        THEN [ok |-> FALSE, err |-> "MalformedReferenceError", id |-> 0]
        ELSE [ok |-> TRUE, err |-> "none",
              id |-> ToInt(segs[CHOOSE i \in hits : \A j \in hits : i <= j])]

NoRelation == ""

\* PartialAnime / PartialManga / PartialPerson: a lightweight reference
Partial(cls, id, relation) == [cls |-> cls, id |-> id, relation |-> relation]

\* PartialAnime.from_character / PartialManga.from_character / PartialPerson.from_author
FromRecord(cls, rec) == Partial(cls, rec["id"], NoRelation)

\* utils.create_relation: an Anime- or Manga-reference by the record's type
CreateRelation(rec) ==
    LET parsed == ParseId(rec["url"])
        cls == IF rec["type"] = "anime" THEN "PartialAnime" ELSE "PartialManga"
    IN  IF rec["type"] \notin {"anime", "manga"}
        THEN [ok |-> FALSE, err |-> "UnknownEntityKindError", obj |-> Partial("", 0, "")]
        ELSE IF "relation" \notin DOMAIN rec
        THEN [ok |-> FALSE, err |-> "KeyError", obj |-> Partial("", 0, "")]
        ELSE IF ~parsed.ok
        THEN [ok |-> FALSE, err |-> parsed.err, obj |-> Partial("", 0, "")]
        ELSE [ok |-> TRUE, err |-> "none", obj |-> Partial(cls, parsed.id, rec["relation"])]

----------------------------------------------------------------------------
(* Field tables: <<attribute, payload key>> in the order of assignment *)

AnimeFields1 ==
    << <<"title", "title">>, <<"type", "type">>, <<"synonyms", "title_synonyms">>,
       <<"image", "image_url">>, <<"japanese_title", "title_japanese">>,
       <<"status", "status">>, <<"episodes", "episodes">>, <<"airing", "airing">> >>

AnimeFields2 ==
    << <<"premiered", "premiered">>, <<"broadcast", "broadcast">>,
       <<"synopsis", "synopsis">>, <<"producers", "producer">>,
       <<"licensors", "licensor">>, <<"studios", "studio">>, <<"source", "source">> >>

AnimeFields3 ==
    << <<"duration", "duration">>, <<"link", "link_canonical">>, <<"rating", "rating">>,
       <<"score", "score">>, <<"rank", "rank">>, <<"popularity", "popularity">>,
       <<"members", "members">>, <<"favorites", "favorites">> >>

MangaFields1 ==
    << <<"title", "title">>, <<"type", "type">>, <<"synonyms", "title_synonyms">>,
       <<"image", "image_url">>, <<"japanese_title", "title_japanese">>,
       <<"status", "status">>, <<"volumes", "volumes">>, <<"chapters", "chapters">>,
       <<"publishing", "publishing">>, <<"synopsis", "synopsis">> >>

MangaFields2 ==
    << <<"link", "link_canonical">>, <<"score", "score">>, <<"rank", "rank">>,
       <<"popularity", "popularity">>, <<"members", "members">>,
       <<"favorites", "favorites">> >>

CharacterFields1 ==
    << <<"link", "link_canonical">>, <<"name", "name">>, <<"image", "image_url">>,
       <<"favorites", "member_favorites">> >>

CharacterFields2 ==
    << <<"japanese_name", "name_kanji">>, <<"about", "about">>,
       <<"voice_actors", "voice_actors">> >>

PersonFields ==
    << <<"link", "link_canonical">>, <<"name", "name">>, <<"image", "image_url">>,
       <<"favorites", "member_favorites">>, <<"anime", "anime_staff_position">>,
       <<"manga", "published_manga">>, <<"birthday", "birthday">>, <<"more", "more">>,
       <<"website", "website">>, <<"voice_acting", "voice_acting_role">> >>

AttrsOf(fields) == {fields[i][1] : i \in 1..Len(fields)}
KeysOf(fields) == {fields[i][2] : i \in 1..Len(fields)}

\* the fields a constructor reads with a plain kwargs.pop(key, None)
PlainFields(k) ==
    CASE k = "Anime" -> AnimeFields1 \o AnimeFields2 \o AnimeFields3
      [] k = "Manga" -> MangaFields1 \o MangaFields2
      [] k = "Character" -> CharacterFields1 \o CharacterFields2
      [] k = "Person" -> PersonFields

----------------------------------------------------------------------------
(* Raw payloads the caller may pass *)

Kinds == {"Anime", "Manga", "Character", "Person"}

EntityIds == {1, 2}

Absent == [t |-> "absent", v |-> <<>>]

Restrict(f, S) == [x \in S |-> f[x]]

\* the payload p with key k bound to x, or without k when x is Absent
With(p, k, x) ==
    IF x = Absent THEN Restrict(p, (DOMAIN p) \ {k}) ELSE SetKey(p, k, x)

UrlAnime5 == <<"/", "a", "/", "5", "/", "n">>
UrlManga17 == <<"/", "m", "/", "1", "7", "/", "n">>
UrlNoId == <<"/", "a", "/", "n">>

\* "Apr 3, 2020 to ?"
ExampleDate ==
    <<"A", "p", "r", " ", "3", ",", " ", "2", "0", "2", "0", " ", "t", "o", " ", "?">>

DatePieces == {<<"a">>, <<"?">>, SEP}

DateStrings ==
    {Flatten(ps) : ps \in SeqsUpTo(DatePieces, MaxPieces)} \cup {ExampleDate}

DateVals == {Absent, Null} \cup {Str(s) : s \in DateStrings}

GenreNames == {"Action", "Drama"}

GenreVals ==
    {Absent, Null} \cup
    {List(l) : l \in SeqsUpTo({[name |-> n] : n \in GenreNames}, MaxGenres)}

RelTypes == {"Sequel", "Adaptation"}

RelRecs ==
    { [type |-> "anime", url |-> UrlAnime5],
      [type |-> "manga", url |-> UrlManga17],
      [type |-> "music", url |-> UrlAnime5],
      [type |-> "anime", url |-> UrlNoId],
      [type |-> "manga", url |-> UrlAnime5, relation |-> "Other"] }

RelLists == SeqsUpTo(RelRecs, MaxRecs)

\* number of records under all relation types of a related mapping
RECURSIVE CountRecs(_)
CountRecs(items) ==
    IF items = <<>> THEN 0 ELSE Len(Head(items).v) + CountRecs(Tail(items))

RelatedVals ==
    {Absent, Null} \cup
    {Dict(d) : d \in
        {items \in
            {<<>>} \cup
            {<<[k |-> a, v |-> l]>> : a \in RelTypes, l \in RelLists} \cup
            {<<[k |-> ab[1], v |-> l1], [k |-> ab[2], v |-> l2]>> :
                ab \in {x \in RelTypes \X RelTypes : x[1] # x[2]},
                l1 \in RelLists, l2 \in RelLists} :
            CountRecs(items) <= MaxRecs}}

UrlRecs ==
    { [url |-> UrlAnime5], [url |-> UrlManga17], [url |-> UrlNoId], [name |-> "n"] }

UrlListVals == {Absent, Null} \cup {List(l) : l \in SeqsUpTo(UrlRecs, MaxRecs)}

SerialVals ==
    {Absent, Null} \cup {List(l) : l \in SeqsUpTo({Val("s1"), Val("s2")}, MaxRecs)}

PlainPayload(k) ==
    [key \in KeysOf(PlainFields(k)) |-> Val(key)]

\* a complete, well-formed payload of each endpoint
Base(k) ==
    CASE k = "Anime" ->
            PlainPayload(k) @@
            [aired_string |-> Str(ExampleDate),
             genre |-> List(<<[name |-> "Action"], [name |-> "Drama"]>>),
             related |-> Dict(<<[k |-> "Sequel", v |-> <<[type |-> "anime", url |-> UrlAnime5]>>]>>)]
      [] k = "Manga" ->
            PlainPayload(k) @@
            [published_string |-> Str(ExampleDate),
             author |-> List(<<[url |-> UrlManga17]>>),
             genre |-> List(<<[name |-> "Action"], [name |-> "Drama"]>>),
             serialization |-> List(<<Val("s1")>>),
             related |-> Dict(<<[k |-> "Adaptation", v |-> <<[type |-> "anime", url |-> UrlAnime5]>>]>>)]
      [] k = "Character" ->
            PlainPayload(k) @@
            [animeography |-> List(<<[url |-> UrlAnime5]>>),
             mangaography |-> List(<<[url |-> UrlManga17]>>)]
      [] k = "Person" -> PlainPayload(k)

DateKey(k) == IF k = "Anime" THEN "aired_string" ELSE "published_string"

\* subsets of S with at most n elements
RECURSIVE SubsetsUpTo(_, _)
SubsetsUpTo(S, n) ==
    IF n = 0 THEN {{}}
    ELSE LET P == SubsetsUpTo(S, n - 1) IN P \cup {T \cup {x} : T \in P, x \in S}

\* the complete payload with some keys left out
OmittedFamily(k) ==
    {Restrict(Base(k), (DOMAIN Base(k)) \ S) : S \in SubsetsUpTo(DOMAIN Base(k), MaxOmitted)}

DateFamily(k) ==
    IF k \in {"Anime", "Manga"}
    THEN {With(Base(k), DateKey(k), d) : d \in DateVals}
    ELSE {}

GenreFamily(k) ==
    IF k \in {"Anime", "Manga"}
    THEN {With(With(Base(k), "genre", g1), "genres", g2) : g1 \in GenreVals, g2 \in GenreVals}
    ELSE {}

RelatedFamily(k) ==
    IF k \in {"Anime", "Manga"}
    THEN {With(Base(k), "related", r) : r \in RelatedVals}
    ELSE {}

AuthorFamily(k) ==
    IF k = "Manga"
    THEN {With(With(Base(k), "author", a), "serialization", z) :
            a \in UrlListVals, z \in SerialVals}
    ELSE {}

OgraphyFamily(k) ==
    IF k = "Character"
    THEN {With(With(Base(k), "animeography", a), "mangaography", m) :
            a \in UrlListVals, m \in UrlListVals}
    ELSE {}

Payloads(k) ==
    OmittedFamily(k) \cup DateFamily(k) \cup GenreFamily(k) \cup RelatedFamily(k)
        \cup AuthorFamily(k) \cup OgraphyFamily(k)

----------------------------------------------------------------------------
(* Building blocks of the constructors *)

\* an object with no attribute assigned yet
NewObject == [a \in {} |-> Null]

\* faulty variant: kwargs.pop(key, ''), an empty string standing for a missing field
PopBlankDefault(kw, p, key) == IF key \in kw THEN p[key] ELSE Str(<<>>)

\* kwargs.pop(key, None), kw being the keys kwargs still holds and p the
\* payload whose values kwargs shares
Pop(kw, p, key) == IF key \in kw THEN p[key] ELSE Null

\* self.<attr> = kwargs.pop(<key>, None) for every <<attr, key>> of fields
Assign(obj, fields, kw, p) ==
    [a \in (DOMAIN obj) \cup AttrsOf(fields) |->
        IF a \in AttrsOf(fields)
        THEN Pop(kw, p, fields[CHOOSE i \in 1..Len(fields) : fields[i][1] = a][2])
        ELSE obj[a]]

\* faulty variant: a presence check before the separator test, a missing
\* date giving start = end = None
DateRangeGuarded(raw) ==
    IF IsNull(raw)
    THEN [ok |-> TRUE, err |-> "none", start |-> Null, end |-> Null]
    ELSE IF ~Contains(raw.v, SEP)
    THEN [ok |-> TRUE, err |-> "none", start |-> raw, end |-> Null]
    ELSE LET parts == Split(raw.v, SEP)
         IN  IF Len(parts) = 2
             THEN [ok |-> TRUE, err |-> "none",
                   start |-> Str(parts[1]), end |-> Str(parts[2])]
             ELSE [ok |-> FALSE, err |-> "ValueError", start |-> Null, end |-> Null]

\* the date-range normalisation: the separator test, then the split and the
\* two-target unpacking of its result
DateRange(raw) ==
    IF IsNull(raw)
    THEN [ok |-> FALSE, err |-> "TypeError", start |-> Null, end |-> Null]
    ELSE IF ~Contains(raw.v, SEP)
    THEN [ok |-> TRUE, err |-> "none", start |-> raw, end |-> Null]
    ELSE LET parts == Split(raw.v, SEP)
         IN  IF Len(parts) = 2
             THEN [ok |-> TRUE, err |-> "none",
                   start |-> Str(parts[1]), end |-> Str(parts[2])]
             ELSE [ok |-> FALSE, err |-> "ValueError", start |-> Null, end |-> Null]

\* [g['name'] for g in raw]
NamesOf(recs) == [i \in 1..Len(recs) |-> recs[i]["name"]]

\* the genre normalisation: "genre", else "genres"; names when the list is truthy
Genres(kw, p) ==
    LET g1 == Pop(kw, p, "genre")
        raw == IF IsNull(g1) THEN Pop(kw, p, "genres") ELSE g1
    IN  [popped |-> IF IsNull(g1) THEN {"genre", "genres"} ELSE {"genre"},
         raw |-> IF IsNull(raw) THEN Null
                 ELSE IF IsNull(g1) THEN Ref("genres") ELSE Ref("genre"),
         genres |-> IF Truthy(raw) THEN List(NamesOf(raw.v)) ELSE Null]

\* faulty variant: kwargs.pop(key, None)[-1]
LastOf(raw) ==
    IF IsNull(raw) THEN [ok |-> FALSE, err |-> "TypeError", item |-> Null]
    ELSE IF Len(raw.v) = 0 THEN [ok |-> FALSE, err |-> "IndexError", item |-> Null]
    ELSE [ok |-> TRUE, err |-> "none", item |-> raw.v[Len(raw.v)]]

\* kwargs.pop(key, None)[0]
FirstOf(raw) ==
    IF IsNull(raw) THEN [ok |-> FALSE, err |-> "TypeError", item |-> Null]
    ELSE IF Len(raw.v) = 0 THEN [ok |-> FALSE, err |-> "IndexError", item |-> Null]
    ELSE [ok |-> TRUE, err |-> "none", item |-> raw.v[1]]

\* faulty variant: kwargs.pop('author', None).pop(0), the caller's list losing
\* its first record
TakeFirst(list, rec) == Tail(list)

\* the author list once its first record, the object _raw_author names, has
\* been given its id
StoreFirst(list, rec) == [list EXCEPT ![1] = rec]

\* faulty variant: <list>.insert(0, obj)
PrependRef(list, obj) == <<obj>> \o list

\* <list>.append(obj)
AppendRef(list, obj) == Append(list, obj)

\* rec['id'] = parse_id(rec['url'])
Enrich(rec) ==
    IF "url" \notin DOMAIN rec
    THEN [ok |-> FALSE, err |-> "KeyError", rec |-> rec]
    ELSE LET parsed == ParseId(rec["url"])
         IN  IF parsed.ok
             THEN [ok |-> TRUE, err |-> "none", rec |-> SetKey(rec, "id", parsed.id)]
             ELSE [ok |-> FALSE, err |-> parsed.err, rec |-> rec]

\* faulty variant: obj = create_relation(relation); relation['relation'] = relation_type
RelateBeforeLabel(rec, relation_type) ==
    [rec |-> SetKey(rec, "relation", relation_type), res |-> CreateRelation(rec)]

\* relation['relation'] = relation_type; obj = create_relation(relation)
Relate(rec, relation_type) ==
    LET labelled == SetKey(rec, "relation", relation_type)
    IN  [rec |-> labelled, res |-> CreateRelation(labelled)]

\* the position after <<ti, ri>> in "for relation_type, relations in
\* related.items(): for relation in relations", <<0, 0>> when exhausted
RECURSIVE NextPos(_, _, _)
NextPos(items, ti, ri) ==
    IF ti > Len(items) THEN <<0, 0>>
    ELSE IF ri < Len(items[ti].v) THEN <<ti, ri + 1>>
    ELSE NextPos(items, ti + 1, 0)

----------------------------------------------------------------------------
(* The caller *)

Init ==
    /\ kind \in Kinds
    /\ entity_id \in EntityIds
    /\ payload \in Payloads(kind)
    /\ payload0 = payload
    /\ kwargs = {}
    /\ self = NewObject
    /\ pc = "call"
    /\ status = "idle"
    /\ err = "none"
    /\ it = <<0, 0>>
    /\ run = 1
    /\ first = [status |-> "idle", err |-> "none", self |-> NewObject]

FirstStage(k) ==
    CASE k = "Anime" -> "A_fields1"
      [] k = "Manga" -> "M_fields1"
      [] k = "Character" -> "C_fields1"
      [] k = "Person" -> "P_fields"

Frame == UNCHANGED <<kind, entity_id, payload0, run, first>>

\* Entity(entity_id, **payload): kwargs is a fresh dict holding the payload's
\* keys and sharing its values
Call ==
    /\ status = "idle"
    /\ status' = "running"
    /\ kwargs' = DOMAIN payload
    /\ pc' = FirstStage(kind)
    /\ UNCHANGED <<payload, self, err, it>>
    /\ Frame

\* the same call once more, on the same payload object
CallAgain ==
    /\ status \in {"returned", "raised"}
    /\ run = 1
    /\ run' = run + 1
    /\ first' = [status |-> status, err |-> err, self |-> self]
    /\ status' = "running"
    /\ kwargs' = DOMAIN payload
    /\ self' = NewObject
    /\ err' = "none"
    /\ it' = <<0, 0>>
    /\ pc' = FirstStage(kind)
    /\ UNCHANGED <<kind, entity_id, payload, payload0>>

----------------------------------------------------------------------------
(* Steps shared by the constructors' translations *)

At(stage) == status = "running" /\ pc = stage

Goto(stage) == pc' = stage /\ UNCHANGED <<status, err>>

Return == pc' = "end" /\ status' = "returned" /\ UNCHANGED err

\* faulty variant: the failure caught inside the constructor, which returns
\* the object as far as it got
RaiseSwallowed(e) == pc' = "end" /\ status' = "returned" /\ err' = "none"

\* no handler anywhere in a constructor: the exception leaves the call
Raise(e) == pc' = pc /\ status' = "raised" /\ err' = e

\* self.id = <id>, then a run of plain fields
PlainStep(stage, fields, setId, next) ==
    /\ At(stage)
    /\ self' = Assign(IF setId THEN SetKey(self, "id", Val(entity_id)) ELSE self,
                      fields, kwargs, payload)
    /\ kwargs' = kwargs \ KeysOf(fields)
    /\ IF next = "end" THEN Return ELSE Goto(next)
    /\ UNCHANGED <<payload, it>>
    /\ Frame

DateStep(stage, key, rawAttr, startAttr, endAttr, next) ==
    /\ At(stage)
    /\ LET raw == Pop(kwargs, payload, key)
           r == DateRange(raw)
       IN  IF r.ok
           THEN /\ self' = SetKey(SetKey(SetKey(self, rawAttr, raw), startAttr, r.start),
                                  endAttr, r.end)
                /\ Goto(next)
           ELSE /\ self' = SetKey(self, rawAttr, raw)
                /\ Raise(r.err)
    /\ kwargs' = kwargs \ {key}
    /\ UNCHANGED <<payload, it>>
    /\ Frame

GenreStep(stage, next) ==
    /\ At(stage)
    /\ LET g == Genres(kwargs, payload)
       IN  /\ self' = SetKey(SetKey(self, "_raw_genres", g.raw), "genres", g.genres)
           /\ kwargs' = kwargs \ g.popped
    /\ Goto(next)
    /\ UNCHANGED <<payload, it>>
    /\ Frame

\* self.related = []; self._raw_related = kwargs.pop('related', None); entering the loop
RelatedStep(stage, loop) ==
    /\ At(stage)
    /\ LET raw == Pop(kwargs, payload, "related")
           obj == SetKey(SetKey(self, "related", List(<<>>)), "_raw_related",
                         IF IsNull(raw) THEN Null ELSE Ref("related"))
       IN  /\ self' = obj
           /\ IF IsNull(raw)
              THEN Raise("AttributeError") /\ it' = it
              ELSE LET pos == NextPos(raw.v, 1, 0)
                   IN  /\ it' = pos
                       /\ IF pos = <<0, 0>> THEN Return ELSE Goto(loop)
    /\ kwargs' = kwargs \ {"related"}
    /\ UNCHANGED payload
    /\ Frame

\* one pass of the inner loop body
RelationStep(loop) ==
    /\ At(loop)
    /\ LET items == payload["related"].v
           ti == it[1]
           ri == it[2]
           r == Relate(items[ti].v[ri], items[ti].k)
           pos == NextPos(items, ti, ri)
       IN  /\ payload' = [payload EXCEPT !["related"].v[ti].v[ri] = r.rec]
           /\ IF r.res.ok
              THEN /\ self' = [self EXCEPT !["related"].v = AppendRef(@, r.res.obj)]
                   /\ it' = pos
                   /\ IF pos = <<0, 0>> THEN Return ELSE Goto(loop)
              ELSE /\ Raise(r.res.err)
                   /\ UNCHANGED <<self, it>>
    /\ UNCHANGED kwargs
    /\ Frame

\* self._raw_author = kwargs.pop('author', None)[0]; its id; the Person-reference
AuthorStep(stage, next) ==
    /\ At(stage)
    /\ LET raw == Pop(kwargs, payload, "author")
           f == FirstOf(raw)
       IN  IF ~f.ok
           THEN Raise(f.err) /\ UNCHANGED <<self, payload>>
           ELSE LET e == Enrich(f.item)
                IN  /\ payload' = [payload EXCEPT !["author"].v = StoreFirst(@, e.rec)]
                    /\ IF e.ok
                       THEN /\ self' = SetKey(SetKey(self, "_raw_author", Ref("author[0]")),
                                              "author", FromRecord("PartialPerson", e.rec))
                            /\ Goto(next)
                       ELSE /\ self' = SetKey(self, "_raw_author", Ref("author[0]"))
                            /\ Raise(e.err)
    /\ kwargs' = kwargs \ {"author"}
    /\ UNCHANGED it
    /\ Frame

\* self.serialization = kwargs.pop('serialization', None)[0]
SerializationStep(stage, next) ==
    /\ At(stage)
    /\ LET raw == Pop(kwargs, payload, "serialization")
           f == FirstOf(raw)
       IN  IF f.ok
           THEN self' = SetKey(self, "serialization", f.item) /\ Goto(next)
           ELSE Raise(f.err) /\ UNCHANGED self
    /\ kwargs' = kwargs \ {"serialization"}
    /\ UNCHANGED <<payload, it>>
    /\ Frame

\* self.<attr> = []; self._raw_<attr> = kwargs.pop(<attr>, None); entering the loop
OgraphyStep(stage, attr, loop, next) ==
    /\ At(stage)
    /\ LET raw == Pop(kwargs, payload, attr)
       IN  /\ self' = SetKey(SetKey(self, attr, List(<<>>)), "_raw_" \o attr,
                             IF IsNull(raw) THEN Null ELSE Ref(attr))
           /\ IF IsNull(raw)
              THEN Raise("TypeError") /\ it' = it
              ELSE IF Len(raw.v) = 0
              THEN Goto(next) /\ it' = <<0, 0>>
              ELSE Goto(loop) /\ it' = <<1, 1>>
    /\ kwargs' = kwargs \ {attr}
    /\ UNCHANGED payload
    /\ Frame

\* one pass of "for rec in self._raw_<attr>"
OgraphyLoopStep(loop, attr, cls, next) ==
    /\ At(loop)
    /\ LET recs == payload[attr].v
           i == it[2]
           e == Enrich(recs[i])
       IN  /\ payload' = [payload EXCEPT ![attr].v[i] = e.rec]
           /\ IF e.ok
              THEN /\ self' = [self EXCEPT ![attr].v = AppendRef(@, FromRecord(cls, e.rec))]
                   /\ IF i < Len(recs)
                      THEN Goto(loop) /\ it' = <<1, i + 1>>
                      ELSE Goto(next) /\ it' = <<0, 0>>
              ELSE /\ Raise(e.err)
                   /\ UNCHANGED <<self, it>>
    /\ UNCHANGED kwargs
    /\ Frame

----------------------------------------------------------------------------
(* Anime.__init__ *)

AnimeFields1Step == PlainStep("A_fields1", AnimeFields1, TRUE, "A_date")

AnimeDateStep == DateStep("A_date", "aired_string", "_air_time", "air_start", "air_end", "A_fields2")

AnimeFields2Step == PlainStep("A_fields2", AnimeFields2, FALSE, "A_genres")

AnimeGenreStep == GenreStep("A_genres", "A_fields3")

AnimeFields3Step == PlainStep("A_fields3", AnimeFields3, FALSE, "A_related")

AnimeRelatedStep == RelatedStep("A_related", "A_relloop")

AnimeRelationStep == RelationStep("A_relloop")

(* Manga.__init__ *)

MangaFields1Step == PlainStep("M_fields1", MangaFields1, TRUE, "M_date")

MangaDateStep ==
    DateStep("M_date", "published_string", "_publish_time", "publish_start", "publish_end", "M_author")

MangaAuthorStep == AuthorStep("M_author", "M_genres")

MangaGenreStep == GenreStep("M_genres", "M_serial")

MangaSerializationStep == SerializationStep("M_serial", "M_fields2")

MangaFields2Step == PlainStep("M_fields2", MangaFields2, FALSE, "M_related")

MangaRelatedStep == RelatedStep("M_related", "M_relloop")

MangaRelationStep == RelationStep("M_relloop")

(* Character.__init__ *)

CharacterFields1Step == PlainStep("C_fields1", CharacterFields1, TRUE, "C_anime")

CharacterAnimeographyStep == OgraphyStep("C_anime", "animeography", "C_animeloop", "C_manga")

CharacterAnimeStep == OgraphyLoopStep("C_animeloop", "animeography", "PartialAnime", "C_manga")

CharacterMangaographyStep == OgraphyStep("C_manga", "mangaography", "C_mangaloop", "C_fields2")

CharacterMangaStep == OgraphyLoopStep("C_mangaloop", "mangaography", "PartialManga", "C_fields2")

CharacterFields2Step == PlainStep("C_fields2", CharacterFields2, FALSE, "end")

(* Person.__init__ *)

PersonFieldsStep == PlainStep("P_fields", PersonFields, TRUE, "end")

----------------------------------------------------------------------------

Next ==
    \/ Call
    \/ CallAgain
    \/ AnimeFields1Step
    \/ AnimeDateStep
    \/ AnimeFields2Step
    \/ AnimeGenreStep
    \/ AnimeFields3Step
    \/ AnimeRelatedStep
    \/ AnimeRelationStep
    \/ MangaFields1Step
    \/ MangaDateStep
    \/ MangaAuthorStep
    \/ MangaGenreStep
    \/ MangaSerializationStep
    \/ MangaFields2Step
    \/ MangaRelatedStep
    \/ MangaRelationStep
    \/ CharacterFields1Step
    \/ CharacterAnimeographyStep
    \/ CharacterAnimeStep
    \/ CharacterMangaographyStep
    \/ CharacterMangaStep
    \/ CharacterFields2Step
    \/ PersonFieldsStep

Spec == Init /\ [][Next]_vars

----------------------------------------------------------------------------
(* What a payload must satisfy for its constructor to succeed, stated on the *)
(* payload alone                                                             *)

Finished == status \in {"returned", "raised"}

Has(p, key) == key \in DOMAIN p /\ ~IsNull(p[key])

\* a date string with no separator, or with exactly one
DateOK(p, key) ==
    /\ Has(p, key)
    /\ LET s == p[key].v
           i == Find(s, SEP)
       IN  i # 0 => ~Contains(SubSeq(s, i + Len(SEP), Len(s)), SEP)

UrlOK(rec) == "url" \in DOMAIN rec /\ ParseId(rec["url"]).ok

RelatedOK(p) ==
    /\ Has(p, "related")
    /\ \A ti \in 1..Len(p["related"].v) :
          \A ri \in 1..Len(p["related"].v[ti].v) :
             LET rec == p["related"].v[ti].v[ri]
             IN  rec["type"] \in {"anime", "manga"} /\ UrlOK(rec)

NonEmpty(p, key) == Has(p, key) /\ Len(p[key].v) > 0

AllUrlOK(p, key) == Has(p, key) /\ \A i \in 1..Len(p[key].v) : UrlOK(p[key].v[i])

WellFormed(k, p) ==
    CASE k = "Anime" -> DateOK(p, "aired_string") /\ RelatedOK(p)
      [] k = "Manga" ->
            /\ DateOK(p, "published_string")
            /\ NonEmpty(p, "author") /\ UrlOK(p["author"].v[1])
            /\ NonEmpty(p, "serialization")
            /\ RelatedOK(p)
      [] k = "Character" -> AllUrlOK(p, "animeography") /\ AllUrlOK(p, "mangaography")
      [] k = "Person" -> TRUE

\* every attribute the constructor of kind k assigns
AllAttrs(k) ==
    {"id"} \cup AttrsOf(PlainFields(k)) \cup
    CASE k = "Anime" ->
            {"_air_time", "air_start", "air_end", "_raw_genres", "genres",
             "related", "_raw_related"}
      [] k = "Manga" ->
            {"_publish_time", "publish_start", "publish_end", "_raw_author", "author",
             "_raw_genres", "genres", "serialization", "related", "_raw_related"}
      [] k = "Character" ->
            {"animeography", "_raw_animeography", "mangaography", "_raw_mangaography"}
      [] k = "Person" -> {}

----------------------------------------------------------------------------
(* Claims *)

\* C1: for each constructor and each field F read with a plain
\* kwargs.pop(F, None): when the payload omits F, the attribute of F is null
\* whenever it is assigned, and if the rest of the payload is complete and
\* well-formed the construction returns an entity (it does not fail).
C1_OmittedFieldIsNull ==
    \A i \in 1..Len(PlainFields(kind)) :
        LET attr == PlainFields(kind)[i][1]
            key == PlainFields(kind)[i][2]
        IN  key \notin DOMAIN payload0 =>
               /\ attr \in DOMAIN self => self[attr] = Null
               /\ (Finished /\ WellFormed(kind, payload0)) =>
                     status = "returned" /\ attr \in DOMAIN self

C1_Witness ==
    /\ status = "returned"
    /\ \E i \in 1..Len(PlainFields(kind)) :
          /\ PlainFields(kind)[i][2] \notin DOMAIN payload0
          /\ self[PlainFields(kind)[i][1]] = Null
    /\ kind = "Manga"

\* C2: once the date step of Anime or Manga has read a date string, a string
\* containing " to " has been split into start and end with
\* start + " to " + end equal to the string, and a string without it is
\* stored whole as start with end null.
C2_DateSplitsIntoPair ==
    \A k \in {"Anime", "Manga"} :
        LET rawAttr == IF k = "Anime" THEN "_air_time" ELSE "_publish_time"
            startAttr == IF k = "Anime" THEN "air_start" ELSE "publish_start"
            endAttr == IF k = "Anime" THEN "air_end" ELSE "publish_end"
        IN  (kind = k /\ rawAttr \in DOMAIN self /\ ~IsNull(self[rawAttr])) =>
               /\ {startAttr, endAttr} \subseteq DOMAIN self
               /\ IF Contains(self[rawAttr].v, SEP)
                  THEN /\ ~IsNull(self[startAttr]) /\ ~IsNull(self[endAttr])
                       /\ self[startAttr].v \o SEP \o self[endAttr].v = self[rawAttr].v
                  ELSE self[startAttr] = self[rawAttr] /\ self[endAttr] = Null

\* C3: once genres is assigned, it is null only when the payload has neither
\* "genre" nor "genres"; when one of them holds a list ("genre" preferred),
\* genres is the list of the "name" values of that list, in order.
C3_GenresNullOnlyWhenAbsent ==
    "genres" \in DOMAIN self =>
        LET field == IF Has(payload0, "genre") THEN "genre" ELSE "genres"
        IN  /\ self["genres"] = Null => {"genre", "genres"} \cap DOMAIN payload0 = {}
            /\ Has(payload0, field) => self["genres"] = List(NamesOf(payload0[field].v))

\* C8: an Anime payload without "aired_string" (or with null there), and a
\* Manga payload without "published_string", never yields an entity: the
\* call fails at the separator test with a TypeError and neither start nor
\* end is ever assigned.
C8_MissingDateFails ==
    (kind \in {"Anime", "Manga"} /\ ~Has(payload0, DateKey(kind))) =>
        /\ status # "returned"
        /\ DOMAIN self \cap {"air_start", "air_end", "publish_start", "publish_end"} = {}
        /\ Finished =>
              /\ status = "raised" /\ err = "TypeError"
              /\ pc = (IF kind = "Anime" THEN "A_date" ELSE "M_date")

C8_Witness ==
    /\ kind = "Anime"
    /\ "aired_string" \notin DOMAIN payload0
    /\ status = "raised"
    /\ pc = "A_date"
    /\ "_air_time" \in DOMAIN self

\* the records of a related mapping in iteration order, each with its label
RECURSIVE FlatRelated(_)
FlatRelated(items) ==
    IF items = <<>> THEN <<>>
    ELSE [i \in 1..Len(Head(items).v) |-> [rec |-> Head(items).v[i], k |-> Head(items).k]]
            \o FlatRelated(Tail(items))

RelatedOf(p) == IF Has(p, "related") THEN FlatRelated(p["related"].v) ELSE <<>>

\* C4: in Anime and Manga, related is never null once assigned; its entries
\* are, in the order of the mapping's relation types and of each record
\* list, the references of the records handled so far, each tagged with the
\* relation type of its record (whatever label the record carried before),
\* the record itself carrying that label; a returned entity has one entry
\* per record.
C4_RelatedFlattened ==
    (kind \in {"Anime", "Manga"} /\ "related" \in DOMAIN self) =>
        LET refs == self["related"].v
            flat == RelatedOf(payload0)
            now == RelatedOf(payload)
        IN  /\ self["related"].t = "list"
            /\ Len(refs) <= Len(flat)
            /\ \A i \in 1..Len(refs) :
                  /\ refs[i] = Partial(IF flat[i].rec["type"] = "anime"
                                       THEN "PartialAnime" ELSE "PartialManga",
                                       ParseId(flat[i].rec["url"]).id, flat[i].k)
                  /\ "relation" \in DOMAIN now[i].rec
                  /\ now[i].rec["relation"] = flat[i].k
            /\ status = "returned" => Len(refs) = Len(flat)

C4_Witness ==
    /\ kind = "Anime"
    /\ status = "returned"
    /\ Len(self["related"].v) = 2
    /\ self["related"].v[1].relation # self["related"].v[2].relation
    /\ "relation" \in DOMAIN RelatedOf(payload0)[1].rec

\* C5: a constructor leaves the caller's payload, nested records included,
\* as it was.
C5_PayloadUntouched == payload = payload0

\* C6: the second call on the same payload object ends as the first did:
\* same outcome, same exception, same attribute values.
C6_SecondCallSameResult ==
    (run = 2 /\ Finished) => [status |-> status, err |-> err, self |-> self] = first

C6_Witness ==
    /\ run = 2
    /\ status = "returned"
    /\ kind = "Manga"
    /\ payload # payload0
    /\ first.status = "returned"

\* C7: a call returns an entity only for a well-formed payload, and then
\* every attribute is assigned and every list has one entry per raw record;
\* for any other payload the call ends with the exception raised inside it.
C7_EntityOrException ==
    /\ status = "returned" =>
          /\ err = "none"
          /\ WellFormed(kind, payload0)
          /\ DOMAIN self = AllAttrs(kind)
          /\ kind \in {"Anime", "Manga"} =>
                Len(self["related"].v) = Len(RelatedOf(payload0))
          /\ kind = "Character" =>
                \A attr \in {"animeography", "mangaography"} :
                   Len(self[attr].v) = Len(payload0[attr].v)
    /\ status = "raised" => err # "none" /\ ~WellFormed(kind, payload0)

C7_Witness ==
    /\ status = "raised"
    /\ err = "UnknownEntityKindError"
    /\ Len(self["related"].v) = 1
    /\ Len(RelatedOf(payload0)) = 2

AnimeographyDone ==
    /\ "animeography" \in DOMAIN self
    /\ Has(payload0, "animeography")
    /\ Len(self["animeography"].v) = Len(payload0["animeography"].v)

\* C10: in Character, animeography and mangaography hold, in the order of
\* the raw list, one reference per record handled so far, built from the
\* record once it carries the id parsed from its url, and one per record in
\* a returned entity; no mangaography record is handled, and no failure is
\* raised on one, before every animeography record has been handled.
C10_OgraphyInOrder ==
    kind = "Character" =>
        /\ \A attr \in {"animeography", "mangaography"} :
              attr \in DOMAIN self =>
                 LET refs == self[attr].v
                     raw == IF Has(payload0, attr) THEN payload0[attr].v ELSE <<>>
                     cls == IF attr = "animeography" THEN "PartialAnime" ELSE "PartialManga"
                 IN  /\ Len(refs) <= Len(raw)
                     /\ \A i \in 1..Len(refs) :
                           /\ UrlOK(raw[i])
                           /\ refs[i] = Partial(cls, ParseId(raw[i]["url"]).id, NoRelation)
                           /\ "id" \in DOMAIN payload[attr].v[i]
                           /\ payload[attr].v[i]["id"] = refs[i].id
                     /\ status = "returned" => Len(refs) = Len(raw)
        /\ "mangaography" \in DOMAIN self => AnimeographyDone
        /\ (run = 1 /\ Has(payload0, "mangaography")
                /\ payload["mangaography"] # payload0["mangaography"]) => AnimeographyDone
        /\ (status = "raised" /\ pc \in {"C_manga", "C_mangaloop"}) => AnimeographyDone

C10_Witness ==
    /\ kind = "Character"
    /\ status = "raised"
    /\ pc = "C_mangaloop"
    /\ err = "MalformedReferenceError"
    /\ Len(self["animeography"].v) = 2
    /\ self["animeography"].v[1].id # self["animeography"].v[2].id

====
